---- MODULE Spec2Model ----
(***************************************************************************)
(* Model of the OpenSky sensor (src/sensor.py): OpenSkySensor.update, the  *)
(* per-record filter, the set difference of consecutive tracked sets and   *)
(* the ENTRY/EXIT events fired through _handle_boundary.                    *)
(*                                                                         *)
(* JSON values are tagged records so that values of different Python      *)
(* types can be told apart: Num(n), Str(chars), Bool(b) and None.  A       *)
(* string is its sequence of characters, so that str.strip() is computed.  *)
(***************************************************************************)
EXTENDS Integers, Sequences, FiniteSets, TLC

VARIABLES
    _state,               \* self._state, exposed by native_value
    _previously_tracked,  \* self._previously_tracked: None or a set of callsigns
    _altitude,            \* self._altitude: the configured altitude ceiling
    _radius,              \* self._radius: the configured radius, in metres
    flight_metadata,      \* update's local flight_metadata when the last update ended
    bus,                  \* events passed to hass.bus.fire by the last update, in order
    called,               \* how the last update ended: "never", "done" or "raised"
    response,             \* what the HTTP API answered to the last update
    prev0,                \* self._previously_tracked when the last update started
    state0,               \* self._state when the last update started
    setup,                \* setup_platform: "none" before it, then "ready" or "failed"
    config,               \* latitude, longitude (degrees) and radius (km) of the configuration
    _bbox,                \* self._lat_min, _lon_min, _lat_max, _lon_max, or None
    last_event,           \* per callsign, the kind of the last event fired for it
    baseline              \* the tracked set stored by the first completed update, or None

vars == <<_state, _previously_tracked, _altitude, _radius, flight_metadata,
          bus, called, response, prev0, state0, setup, config, _bbox,
          last_event, baseline>>

----------------------------------------------------------------------------
(* Python / JSON values *)

None == [none |-> TRUE]
Num(n) == [num |-> n]
Str(s) == [str |-> s]
Bool(b) == [bool |-> b]

IsNone(v) == DOMAIN v = {"none"}
IsNum(v) == DOMAIN v = {"num"}
IsStr(v) == DOMAIN v = {"str"}
IsBool(v) == DOMAIN v = {"bool"}

\* Python truth value of a JSON value (the test of "or flight.get(ATTR_ON_GROUND)")
Truthy(v) ==
    IF IsNone(v) THEN FALSE
    ELSE IF IsBool(v) THEN v.bool
    ELSE IF IsNum(v) THEN v.num # 0
    ELSE v.str # <<>>

\* str.strip(): drop leading and trailing whitespace
RECURSIVE lstrip(_)
lstrip(s) == IF s # <<>> /\ Head(s) = " " THEN lstrip(Tail(s)) ELSE s

RECURSIVE rstrip(_)
rstrip(s) ==
    IF s # <<>> /\ s[Len(s)] = " " THEN rstrip(SubSeq(s, 1, Len(s) - 1)) ELSE s

strip(s) == rstrip(lstrip(s))

----------------------------------------------------------------------------
(* Constants of the module *)

ATTR_ICAO24 == "icao24"
ATTR_CALLSIGN == "callsign"
ATTR_ALTITUDE == "altitude"
ATTR_ON_GROUND == "on_ground"
ATTR_LONGITUDE == "longitude"
ATTR_LATITUDE == "latitude"
ATTR_SENSOR == "sensor"

EVENT_OPENSKY_ENTRY == "opensky_entry"
EVENT_OPENSKY_EXIT == "opensky_exit"

DEFAULT_ALTITUDE == 0

OPENSKY_API_FIELDS ==
    << ATTR_ICAO24, ATTR_CALLSIGN, "origin_country", "time_position",
       "time_velocity", ATTR_LONGITUDE, ATTR_LATITUDE, ATTR_ALTITUDE,
       ATTR_ON_GROUND, "velocity", "heading", "vertical_rate", "sensors" >>

\* dict(zip(OPENSKY_API_FIELDS, state)): zip stops at the shorter of the two
Min(a, b) == IF a < b THEN a ELSE b

zip_fields(state) ==
    LET n == Min(Len(OPENSKY_API_FIELDS), Len(state))
        keys == {OPENSKY_API_FIELDS[i] : i \in 1..n}
    IN [k \in keys |->
          state[CHOOSE i \in 1..n : OPENSKY_API_FIELDS[i] = k]]

\* dict.get(key): None when the key is absent
get(flight, key) == IF key \in DOMAIN flight THEN flight[key] ELSE None

----------------------------------------------------------------------------
(* Configuration of the sensor, fixed by __init__ *)

\* Coordinates are counted in grid steps of one kilometre around the centre.
_latitude == 0
_longitude == 0
_name == "opensky"

\* CONF_RADIUS is given in kilometres
CONF_RADIUS == 5

\* DistanceConverter.convert(radius, KILOMETERS, METERS)
MetresPerKm == 1000
convert_km_to_m(km) == km * MetresPerKm

\* Altitude ceilings the sensor may be configured with (0: no ceiling)
Ceiling == 1000
Altitudes == {DEFAULT_ALTITUDE, Ceiling}

\* A point for which the distance computation does not converge
AntipodeLongitude == 20000

ISqrt(n) == CHOOSE r \in 0..n : r * r <= n /\ n < (r + 1) * (r + 1)

\* util_location.distance(lat1, lon1, lat2, lon2), in metres, or None.
\* The caller has checked that lat2 and lon2 are numbers.
distance(lat1, lon1, lat2, lon2) ==
    IF IsNone(lat1) \/ IsNone(lon1) THEN None
    ELSE IF lon2.num - lon1.num = AntipodeLongitude /\ lat2.num = -lat1.num THEN None
    ELSE LET dlat == lat2.num - lat1.num
             dlon == lon2.num - lon1.num
         IN Num(MetresPerKm * ISqrt(dlat * dlat + dlon * dlon))

----------------------------------------------------------------------------
(* _get_bbox *)

\* Angles are fixed-point numbers: one unit is a ten-thousandth of a degree,
\* so that math.pi is a whole number of units.
UnitsPerDegree == 10000
PI == 180 * UnitsPerDegree

\* One radian in units (180 / pi degrees)
UnitsPerRadian == 572958

\* math.radians of a whole number of degrees
radians(deg) == deg * UnitsPerDegree

\* math.degrees, in thousandths of a degree
UnitsPerMilliDegree == 10
degrees(x) == x \div UnitsPerMilliDegree

\* math.cos of a latitude, in units of 1 / CosScale, for the latitudes of Latitudes
CosScale == 100000

math_cos(lat) ==
    LET a == IF lat < 0 THEN -lat ELSE lat
    IN CASE a = radians(0) -> 100000
         [] a = radians(60) -> 50000
         [] a = radians(80) -> 17365
         [] a = radians(89) -> 1745

\* Python's x % m: the result has the sign of m
pymod(x, m) == IF m > 0 THEN x % m ELSE -((-x) % (-m))

max(a, b) == IF a > b THEN a ELSE b

approx_earth_radius == 6371

\* A length on a circle of the given radius (both in km) as an angle
angle(length, circle_radius) == (length * UnitsPerRadian) \div circle_radius

\* "lon_max = math.pi - (lon_max % math.pi)"
wrap_lon_max(lon_max) == PI - pymod(lon_max, PI)

\* "lon_min = math.pi + (lon_min % -math.pi)"
wrap_lon_min(lon_min) == PI + pymod(lon_min, -PI)

\* Bug: the southern edge is not clamped at the pole
clamp_south_missing(lat_min) == lat_min

\* "lat_min = max(-math.pi / 2, lat_min)"
clamp_south(lat_min) == max(-PI \div 2, lat_min)

\* "lat_max = min(math.pi / 2, lat_max)"
clamp_north(lat_max) == Min(PI \div 2, lat_max)

\* The box of a centre in degrees and a radius in metres, after the assert
_get_bbox(latitude, longitude, radius) ==
    LET half_side_in_km == radius \div MetresPerKm
        lat == radians(latitude)
        lon == radians(longitude)
        parallel_radius == (approx_earth_radius * math_cos(lat)) \div CosScale
        lat_min == clamp_south(lat - angle(half_side_in_km, approx_earth_radius))
        lat_max == clamp_north(lat + angle(half_side_in_km, approx_earth_radius))
        lon_min0 == lon - angle(half_side_in_km, parallel_radius)
        lon_min == IF lon_min0 < -PI THEN wrap_lon_min(lon_min0) ELSE lon_min0
        lon_max0 == lon + angle(half_side_in_km, parallel_radius)
        lon_max == IF lon_max0 > PI THEN wrap_lon_max(lon_max0) ELSE lon_max0
    IN [lat_min |-> degrees(lat_min), lon_min |-> degrees(lon_min),
        lat_max |-> degrees(lat_max), lon_max |-> degrees(lon_max)]

\* Bug: the assert is missing
radius_accepted_always(radius) == TRUE

\* "assert half_side_in_km > 0"
radius_accepted(radius) == radius > 0

----------------------------------------------------------------------------
(* update: the loop over the states of the response *)

\* flight_metadata[callsign] = flight
put(metadata, callsign, flight) ==
    [k \in DOMAIN metadata \cup {callsign} |->
        IF k = callsign THEN flight ELSE metadata[k]]

EmptyDict == [k \in {} |-> None]

\* The locals of update while the loop runs; raised: an exception left the loop
Locals0 == [flight_metadata |-> EmptyDict, currently_tracked |-> {}, raised |-> FALSE]

Raise(loc) == [loc EXCEPT !.raised = TRUE]

\* Bug: the test of the trimmed callsign is missing
blank_never(callsign) == FALSE

\* "if callsign != ''" fails: the record is skipped before it is stored
blank(callsign) == callsign = <<>>

\* Bug: the on_ground flag is not looked at
no_position_ignoring_ground(flight) ==
    \/ IsNone(get(flight, ATTR_LONGITUDE))
    \/ IsNone(get(flight, ATTR_LATITUDE))

\* The first "continue" of the filter: no position, or on the ground
no_position(flight) ==
    \/ IsNone(get(flight, ATTR_LONGITUDE))
    \/ IsNone(get(flight, ATTR_LATITUDE))
    \/ Truthy(get(flight, ATTR_ON_GROUND))

\* "distance is None or distance > self._radius"
too_far(dist, radius) == IsNone(dist) \/ dist.num > radius

\* Bug: the ceiling itself is already too high
too_high_at_ceiling(altitude, ceiling) == altitude.num >= ceiling /\ ceiling # 0

\* "altitude > self._altitude and self._altitude != 0"
too_high(altitude, ceiling) == altitude.num > ceiling /\ ceiling # 0

\* One iteration of "for state in states", for the configured ceiling and radius
loop_body(loc, state, ceiling, radius) ==
    LET flight == zip_fields(state)
    IN
    IF ATTR_CALLSIGN \notin DOMAIN flight THEN Raise(loc)            \* KeyError
    ELSE IF ~IsStr(flight[ATTR_CALLSIGN]) THEN Raise(loc)            \* AttributeError
    ELSE
    LET callsign == strip(flight[ATTR_CALLSIGN].str)
        stored == [loc EXCEPT !.flight_metadata = put(@, callsign, flight)]
        longitude == get(flight, ATTR_LONGITUDE)
        latitude == get(flight, ATTR_LATITUDE)
        altitude == get(flight, ATTR_ALTITUDE)
    IN
    IF blank(callsign) THEN loc
    ELSE IF no_position(flight) THEN stored
    ELSE IF ~IsNum(latitude) \/ ~IsNum(longitude) THEN Raise(stored)  \* TypeError
    ELSE IF too_far(distance(Num(_latitude), Num(_longitude), latitude, longitude), radius)
         THEN stored
    ELSE IF IsNone(altitude) THEN stored
    ELSE IF ~IsNum(altitude) THEN Raise(stored)                      \* TypeError
    ELSE IF too_high(altitude, ceiling) THEN stored
    ELSE [stored EXCEPT !.currently_tracked = @ \cup {callsign}]

\* The whole loop: stops at the first iteration that raises
RECURSIVE loop(_, _, _, _)
loop(loc, states, ceiling, radius) ==
    IF states = <<>> \/ loc.raised THEN loc
    ELSE loop(loop_body(loc, Head(states), ceiling, radius), Tail(states), ceiling, radius)

----------------------------------------------------------------------------
(* _handle_boundary *)

ENTRY == EVENT_OPENSKY_ENTRY
EXIT == EVENT_OPENSKY_EXIT

\* Bug: every flight is reported as landed, its metadata is not read
boundary_event_landed(flight, event, metadata) ==
    [event |-> event,
     callsign |-> flight,
     altitude |-> Num(0),
     sensor |-> _name,
     longitude |-> None,
     latitude |-> None,
     icao24 |-> None]

\* The event fired for one flight of "for flight in flights"
boundary_event(flight, event, metadata) ==
    LET found == flight \in DOMAIN metadata
        altitude == IF found THEN get(metadata[flight], ATTR_ALTITUDE) ELSE Num(0)
        longitude == IF found THEN get(metadata[flight], ATTR_LONGITUDE) ELSE None
        latitude == IF found THEN get(metadata[flight], ATTR_LATITUDE) ELSE None
        icao24 == IF found THEN get(metadata[flight], ATTR_ICAO24) ELSE None
    IN [event |-> event,
        callsign |-> flight,
        altitude |-> altitude,
        sensor |-> _name,
        longitude |-> longitude,
        latitude |-> latitude,
        icao24 |-> icao24]

\* Bug: a flight without metadata is passed over
_handle_boundary_known_only(flights, event, metadata) ==
    LET known == SelectSeq(flights, LAMBDA f : f \in DOMAIN metadata)
    IN [i \in 1..Len(known) |-> boundary_event(known[i], event, metadata)]

\* flights: the order in which the set happens to be iterated
_handle_boundary(flights, event, metadata) ==
    [i \in 1..Len(flights) |-> boundary_event(flights[i], event, metadata)]

\* The orders in which "for flight in flights" may iterate a set
Iterations(S) ==
    {f \in [1..Cardinality(S) -> S] : \A i, j \in 1..Cardinality(S) : f[i] = f[j] => i = j}

----------------------------------------------------------------------------
(* The answers of the HTTP API *)

MaxStates == 2        \* longest "states" list of a response of Spec
MaxFilter == 1        \* longest "states" list of a response of SpecFilter

A == <<"A">>
B == <<"B">>
C == <<"C">>
A_padded == <<"A", " ", " ">>
Blank == <<" ", " ">>

\* A state vector with all 13 fields
vector(icao24, callsign, longitude, latitude, altitude, on_ground) ==
    << icao24, callsign, Str(<<"D", "E">>), Num(0), Num(0), longitude, latitude,
       altitude, on_ground, Num(0), Num(0), Num(0), None >>

icao(callsign) == Str(<<"i">> \o callsign)

\* Inside the radius, below the ceiling, in the air
inside(callsign) ==
    vector(icao(callsign), Str(callsign), Num(1), Num(1), Num(500), Bool(FALSE))

\* The same record with one field replaced (fields are counted from 1)
with(state, i, v) == [state EXCEPT ![i] = v]

NotAString == <<"x">>

\* The records of the polls: three aircraft inside the region, one of them
\* also seen on the ground, and a record whose callsign is null
StateVectors ==
    { inside(A), inside(B), inside(C),
      with(inside(A), 9, Bool(TRUE)),
      with(inside(A), 2, None) }

\* One aircraft, every way its record can pass, fail or break the filter
FilterVectors ==
    { inside(A), inside(A_padded),
      with(inside(A), 9, Bool(TRUE)),              \* on the ground
      with(with(inside(A), 6, Num(3)), 7, Num(4)), \* on the radius
      with(inside(A), 7, Num(6)),                  \* outside the radius
      with(with(inside(A), 6, Num(AntipodeLongitude)), 7, Num(0)),
      with(inside(A), 8, Num(Ceiling)),            \* at the ceiling
      with(inside(A), 8, Num(Ceiling + 500)),      \* above the ceiling
      with(inside(A), 6, None),                    \* no longitude
      with(inside(A), 7, None),                    \* no latitude
      with(inside(A), 8, None),                    \* no altitude
      SubSeq(inside(A), 1, 8) }                    \* no on_ground field
    \cup
    { inside(Blank),                               \* blank callsigns
      with(inside(<<>>), 9, Bool(TRUE)) }
    \cup
    { with(inside(A), 2, None),                    \* null callsign
      SubSeq(inside(A), 1, 1),                     \* no callsign field
      SubSeq(inside(A), 1, 2),                     \* callsign and nothing else
      with(inside(A), 7, Str(NotAString)),         \* latitude is not a number
      with(inside(A), 8, Str(NotAString)),         \* altitude is not a number
      with(with(inside(A), 8, Str(NotAString)), 9, Bool(TRUE)) }

RECURSIVE SeqsUpTo(_, _)
SeqsUpTo(S, n) ==
    IF n = 0 THEN {<<>>}
    ELSE LET shorter == SeqsUpTo(S, n - 1)
         IN shorter \cup {Append(q, x) : q \in shorter, x \in S}

\* Bodies that are not JSON: no bytes, one byte, two bytes
Contents == { <<>>, <<Num(60)>>, <<Num(60), Num(104)>> }

\* The answers that carry no list of states
Failures ==
    { [kind |-> "error"] }                          \* session.post or session.get raises
    \cup { [kind |-> "null"], [kind |-> "nokey"] }  \* {"states": null} and {}
    \cup { [kind |-> "text", ok |-> ok, content |-> c] : ok \in BOOLEAN, c \in Contents }

Responses ==
    Failures \cup { [kind |-> "states", states |-> q] : q \in SeqsUpTo(StateVectors, MaxStates) }

FilterResponses ==
    { [kind |-> "states", states |-> q] : q \in SeqsUpTo(FilterVectors, MaxFilter) }

\* Response.iter_content(chunk_size) of a body that has been read
CHUNK == 128

iter_content(content, chunk_size) ==
    LET n == (Len(content) + chunk_size - 1) \div chunk_size
    IN [i \in 1..n |->
          SubSeq(content, (i - 1) * chunk_size + 1, Min(i * chunk_size, Len(content)))]

\* What "for state in states" iterates after the try block; nothing when
\* "if states" is false
iterated(r) ==
    IF r.kind = "states" THEN r.states          \* a list; the empty list is false
    ELSE IF r.kind = "text" THEN                \* json() raised: states is the Response
        IF r.ok THEN iter_content(r.content, CHUNK) ELSE <<>>
    ELSE <<>>                                   \* .get(ATTR_STATES) is None

----------------------------------------------------------------------------
(* The sensor *)

Tracked(S) == [set |-> S]
IsSet(v) == DOMAIN v = {"set"}

\* The configuration of Spec and SpecFilter: the centre is the origin of the grid
DefaultConfig == [latitude |-> _latitude, longitude |-> _longitude, radius |-> CONF_RADIUS]

\* __init__, up to the call of _get_bbox
constructed(cfg) ==
    /\ _state = 0
    /\ _previously_tracked = None
    /\ _radius = convert_km_to_m(cfg.radius)
    /\ config = cfg

\* What no update has touched yet
untouched ==
    /\ flight_metadata = EmptyDict
    /\ bus = <<>>
    /\ called = "never"
    /\ response = [kind |-> "none"]
    /\ prev0 = None
    /\ state0 = 0
    /\ last_event = EmptyDict
    /\ baseline = None

\* The sensor after setup_platform has constructed it
Init ==
    /\ constructed(DefaultConfig)
    /\ _altitude \in Altitudes
    /\ setup = "ready"
    /\ _bbox = _get_bbox(DefaultConfig.latitude, DefaultConfig.longitude,
                         convert_km_to_m(DefaultConfig.radius))
    /\ untouched

\* Bug: every current callsign is announced, also those already tracked
entries_of_all(currently_tracked, previously_tracked) == currently_tracked

\* The set differences of update
entries_of(currently_tracked, previously_tracked) == currently_tracked \ previously_tracked
\* Bug: every callsign of the previous set is reported gone
exits_of_all(currently_tracked, previously_tracked) == previously_tracked

exits_of(currently_tracked, previously_tracked) == previously_tracked \ currently_tracked

\* Bug: the two calls of _handle_boundary are swapped
fire_exits_first(es, xs, metadata) ==
    _handle_boundary(xs, EXIT, metadata) \o _handle_boundary(es, ENTRY, metadata)

\* The events of update, entries and exits iterated in the orders es and xs
fire(es, xs, metadata) ==
    _handle_boundary(es, ENTRY, metadata) \o _handle_boundary(xs, EXIT, metadata)

\* Bug: an unset previous set is read as the empty set
boundary_unset_as_empty(previously_tracked, currently_tracked, metadata) ==
    LET previous == IF IsNone(previously_tracked) THEN {} ELSE previously_tracked.set
    IN { fire(es, xs, metadata) :
           es \in Iterations(entries_of(currently_tracked, previous)),
           xs \in Iterations(exits_of(currently_tracked, previous)) }

\* Bug: "if self._previously_tracked:", which is false for the empty set too
boundary_if_truthy(previously_tracked, currently_tracked, metadata) ==
    IF IsNone(previously_tracked) \/ previously_tracked.set = {} THEN {<<>>}
    ELSE { fire(es, xs, metadata) :
             es \in Iterations(entries_of(currently_tracked, previously_tracked.set)),
             xs \in Iterations(exits_of(currently_tracked, previously_tracked.set)) }

\* "if self._previously_tracked is not None": the event sequences update may fire
boundary(previously_tracked, currently_tracked, metadata) ==
    IF IsNone(previously_tracked) THEN {<<>>}
    ELSE { fire(es, xs, metadata) :
             es \in Iterations(entries_of(currently_tracked, previously_tracked.set)),
             xs \in Iterations(exits_of(currently_tracked, previously_tracked.set)) }

\* Bug: the count is taken from the metadata, not from the tracked set
new_state_of_metadata(loc) == Cardinality(DOMAIN loc.flight_metadata)

\* "self._state = len(currently_tracked)"
new_state(loc) == Cardinality(loc.currently_tracked)

\* Bug: the count and the tracked set are assigned before anything can raise
commit_early(aborted, old, new) == new

\* Lines 245 and 246 are the last of update: they run only if nothing raised
commit(aborted, old, new) == IF aborted THEN old ELSE new

\* update with answer r; refused: which call of hass.bus.fire raises (0: none)
update_with_bus(r, refused) ==
    LET loc == IF r.kind = "error" THEN Raise(Locals0)
               ELSE loop(Locals0, iterated(r), _altitude, _radius)
        aborted == loc.raised \/ refused > 0
    IN
    /\ setup = "ready"
    /\ response' = r
    /\ prev0' = _previously_tracked
    /\ state0' = _state
    /\ flight_metadata' = loc.flight_metadata
    /\ UNCHANGED <<_altitude, _radius, setup, config, _bbox>>
    /\ called' = IF aborted THEN "raised" ELSE "done"
    /\ \E events \in IF loc.raised THEN {<<>>}
                     ELSE boundary(_previously_tracked, loc.currently_tracked,
                                   loc.flight_metadata) :
           /\ refused <= Len(events)
           /\ bus' = IF refused > 0 THEN SubSeq(events, 1, refused - 1) ELSE events
    /\ _state' = commit(aborted, _state, new_state(loc))
    /\ _previously_tracked' = commit(aborted, _previously_tracked,
                                     Tracked(loc.currently_tracked))

\* update while the event bus takes every event
update(r) == update_with_bus(r, 0) /\ UNCHANGED <<last_event, baseline>>

Update == \E r \in Responses : update(r)

Next == Update

Spec == Init /\ [][Next]_vars

\* The same sensor polled with one aircraft whose record varies in every field
UpdateFilter == \E r \in FilterResponses : update(r)

NextFilter == UpdateFilter

SpecFilter == Init /\ [][NextFilter]_vars

----------------------------------------------------------------------------
(* setup_platform: the construction of the sensor from its configuration *)

Latitudes == {-89, 0, 60, 80, 89}
Longitudes == {-180, -179, 0, 179, 180}
Radii == {-100, 0, 100, 200, 400}

Configs == [latitude : Latitudes, longitude : Longitudes, radius : Radii]

MaxSetup == 1        \* longest "states" list of a response of SpecSetup

SetupResponses ==
    { [kind |-> "states", states |-> q] : q \in SeqsUpTo({inside(A), inside(B)}, MaxSetup) }

\* Before setup_platform runs there is no sensor
InitSetup ==
    /\ setup = "none"
    /\ config \in Configs
    /\ _altitude \in Altitudes
    /\ _state = 0
    /\ _previously_tracked = None
    /\ _radius = 0
    /\ _bbox = None
    /\ untouched

\* OpenSkySensor(...): the assert of _get_bbox raises out of __init__ and of
\* setup_platform, and add_entities is not called
Construct ==
    /\ setup = "none"
    /\ _radius' = convert_km_to_m(config.radius)
    /\ IF radius_accepted(_radius' \div MetresPerKm)
       THEN /\ setup' = "ready"
            /\ _bbox' = _get_bbox(config.latitude, config.longitude, _radius')
       ELSE /\ setup' = "failed"
            /\ _bbox' = None
    /\ UNCHANGED <<_state, _previously_tracked, _altitude, flight_metadata, bus, called,
                   response, prev0, state0, config, last_event, baseline>>

UpdateSetup == \E r \in SetupResponses : update(r)

NextSetup == Construct \/ UpdateSetup

SpecSetup == InitSetup /\ [][NextSetup]_vars

----------------------------------------------------------------------------
(* The sensor observed over its polls: the last event of every callsign *)

MaxLog == 2        \* longest "states" list of a response of SpecLog

LogResponses ==
    { [kind |-> "nokey"] }
    \cup { [kind |-> "states", states |-> q] : q \in SeqsUpTo({inside(A), inside(B)}, MaxLog) }

\* The last event of every callsign after the events were fired in order
RECURSIVE record_events(_, _)
record_events(last, events) ==
    IF events = <<>> THEN last
    ELSE record_events(put(last, Head(events).callsign, Head(events).event), Tail(events))

UpdateLog ==
    \E r \in LogResponses :
        /\ update_with_bus(r, 0)
        /\ last_event' = record_events(last_event, bus')
        /\ baseline' = IF IsNone(baseline) /\ called' = "done"
                       THEN _previously_tracked'
                       ELSE baseline

NextLog == UpdateLog

SpecLog == Init /\ [][NextLog]_vars

----------------------------------------------------------------------------
(* The sensor with an event bus that may refuse an event *)

MaxAbort == 2        \* longest "states" list of a response of SpecAbort

AbortResponses ==
    { [kind |-> "error"], [kind |-> "text", ok |-> TRUE, content |-> <<Num(60)>>] }
    \cup { [kind |-> "states", states |-> q] :
             q \in SeqsUpTo({inside(A), inside(B), with(inside(A), 2, None)}, MaxAbort) }

\* refused = k: the k-th call of hass.bus.fire raises and update ends there
UpdateAbort ==
    \E r \in AbortResponses, refused \in 0..MaxAbort :
        /\ update_with_bus(r, refused)
        /\ UNCHANGED <<last_event, baseline>>

NextAbort == UpdateAbort

SpecAbort == Init /\ [][NextAbort]_vars

TypeOK ==
    /\ _state \in 0..3
    /\ IsNone(_previously_tracked) \/ IsSet(_previously_tracked)
    /\ called \in {"never", "done", "raised"}

----------------------------------------------------------------------------
(* Vocabulary of the properties *)

Ran == called # "never"
Completed == called = "done"

\* The callsigns for which the last update fired an event of the given kind
Fired(event) == {bus[i].callsign : i \in {j \in DOMAIN bus : bus[j].event = event}}

\* How many events the last update fired for a callsign
EventsFor(c) == Cardinality({i \in DOMAIN bus : bus[i].callsign = c})

\* Field i of a state vector, None when the vector is shorter
field(state, i) == IF i <= Len(state) THEN state[i] ELSE None

\* The callsign a state vector is filed under, if it has one
HasCallsign(state) == IsStr(field(state, 2)) /\ strip(field(state, 2).str) # <<>>
CallsignOf(state) == strip(field(state, 2).str)

\* The inclusion rule as the specification words it, on the raw state vector
Qualifies(state, ceiling, radius) ==
    LET longitude == field(state, 6)
        latitude == field(state, 7)
        altitude == field(state, 8)
        on_ground == field(state, 9)
    IN /\ IsNum(longitude)
       /\ IsNum(latitude)
       /\ ~Truthy(on_ground)
       /\ LET d == distance(Num(_latitude), Num(_longitude), latitude, longitude)
          IN ~IsNone(d) /\ d.num <= radius
       /\ IsNum(altitude)
       /\ (ceiling = 0 \/ altitude.num <= ceiling)

\* The records of the last response, when it carried a list of states
Records == IF response.kind = "states" THEN response.states ELSE <<>>

----------------------------------------------------------------------------
(* C1: in every update that is not the first, the events are exactly one   *)
(* ENTRY per callsign of (current \ previous) and one EXIT per callsign of *)
(* (previous \ current); a callsign in both sets, or in neither, gets no   *)
(* event, and none gets two.                                               *)
C1_ExactDifference ==
    (Ran /\ IsSet(prev0)) =>
        LET current == _previously_tracked.set
            previous == prev0.set
        IN /\ Fired(ENTRY) = current \ previous
           /\ Fired(EXIT) = previous \ current
           /\ \A c \in Fired(ENTRY) \cup Fired(EXIT) : EventsFor(c) = 1
           /\ Fired(ENTRY) \cap Fired(EXIT) = {}
           /\ \A i \in DOMAIN bus : bus[i].event \in {ENTRY, EXIT}
           /\ \A c \in current \cap previous : EventsFor(c) = 0

\* An update with an entry, an exit and a callsign that stays
C1_Witness ==
    /\ Completed /\ IsSet(prev0)
    /\ prev0.set = {A, B}
    /\ _previously_tracked.set = {A, C}
    /\ Len(bus) = 2

(* C2: the first update (previous tracked set unset) fires no event        *)
(* whatever it receives, and with N qualifying records of distinct         *)
(* callsigns it sets the count to N.                                       *)
C2_FirstPollBaseline ==
    (Ran /\ IsNone(prev0)) =>
        /\ bus = <<>>
        /\ ( /\ response.kind = "states"
             /\ \A i \in DOMAIN Records :
                    HasCallsign(Records[i]) /\ Qualifies(Records[i], _altitude, _radius)
             /\ \A i, j \in DOMAIN Records :
                    CallsignOf(Records[i]) = CallsignOf(Records[j]) => i = j )
           => (Completed /\ _state = Len(Records))

C2_Witness ==
    /\ Completed /\ IsNone(prev0)
    /\ Len(Records) = MaxStates
    /\ _state = MaxStates
    /\ bus = <<>>

(* C3: when the fetch or the parse of the answer fails (network error,     *)
(* body that is not JSON, body without "states"), the tracked set and the  *)
(* count are as before the cycle and no event is fired.                    *)
C3_FetchFailureStable ==
    (Ran /\ response.kind \in {"error", "text", "nokey"}) =>
        /\ _previously_tracked = prev0
        /\ _state = state0
        /\ bus = <<>>

(* C4: within one update every ENTRY is fired before any EXIT; from        *)
(* previous {A, B} and current {B, C} the events are ENTRY C then EXIT A   *)
(* and the count is 2.                                                     *)
C4_EntriesBeforeExits ==
    /\ \A i, j \in DOMAIN bus :
           (bus[i].event = EXIT /\ bus[j].event = ENTRY) => j < i
    /\ ( /\ Completed /\ IsSet(prev0)
         /\ prev0.set = {A, B}
         /\ _previously_tracked.set = {B, C} )
       => /\ Len(bus) = 2
          /\ bus[1].event = ENTRY /\ bus[1].callsign = C
          /\ bus[2].event = EXIT /\ bus[2].callsign = A
          /\ _state = 2

C4_Witness ==
    /\ Completed /\ IsSet(prev0)
    /\ prev0.set = {A, B}
    /\ _previously_tracked.set = {B, C}
    /\ Fired(ENTRY) = {C}
    /\ Fired(EXIT) = {A}

(* C5: after every completed update the count is the number of distinct    *)
(* callsigns of the stored tracked set, the set of that update (a callsign *)
(* repeated in the records counts once); before the first update the       *)
(* count is 0 and the tracked set is unset.                                *)
C5_CountIsSize ==
    /\ ~Ran => (_state = 0 /\ IsNone(_previously_tracked))
    /\ IsNone(_previously_tracked) => (_state = 0 /\ ~Completed)
    /\ IsSet(_previously_tracked) => _state = Cardinality(_previously_tracked.set)
    /\ Completed =>
           /\ IsSet(_previously_tracked)
           /\ _previously_tracked.set \subseteq DOMAIN flight_metadata
           /\ _state <= Cardinality({CallsignOf(Records[i]) :
                                       i \in {j \in DOMAIN Records : HasCallsign(Records[j])}})

\* Two records of one callsign, counted once
C5_Witness ==
    /\ Completed
    /\ Len(Records) = 2
    /\ HasCallsign(Records[1]) /\ HasCallsign(Records[2])
    /\ CallsignOf(Records[1]) = CallsignOf(Records[2])
    /\ Qualifies(Records[1], _altitude, _radius)
    /\ Qualifies(Records[2], _altitude, _radius)
    /\ _state = 1

(* C6: a malformed record (too few fields, no callsign field, a null        *)
(* callsign, an altitude, latitude or longitude that is not a number) does *)
(* not abort the update: the update completes, the malformed record is not *)
(* tracked and the other records of the list are processed.                *)
C6_MalformedTolerated ==
    (Ran /\ response.kind = "states") =>
        /\ Completed
        /\ _previously_tracked =
               Tracked({CallsignOf(Records[i]) :
                          i \in {j \in DOMAIN Records :
                                   /\ HasCallsign(Records[j])
                                   /\ Qualifies(Records[j], _altitude, _radius)}})
        /\ _state = Cardinality(_previously_tracked.set)

\* The inclusion rule on a record of the metadata
PassesFilters(flight, ceiling, radius) ==
    LET longitude == get(flight, ATTR_LONGITUDE)
        latitude == get(flight, ATTR_LATITUDE)
        altitude == get(flight, ATTR_ALTITUDE)
    IN /\ IsNum(longitude)
       /\ IsNum(latitude)
       /\ ~Truthy(get(flight, ATTR_ON_GROUND))
       /\ LET d == distance(Num(_latitude), Num(_longitude), latitude, longitude)
          IN ~IsNone(d) /\ d.num <= radius
       /\ IsNum(altitude)
       /\ (ceiling = 0 \/ altitude.num <= ceiling)

(* C7: a callsign of the previous tracked set that has no record in the    *)
(* current metadata still gets an EXIT event, with altitude 0 and null     *)
(* latitude, longitude and icao24.                                         *)
C7_MissingMetadataExit ==
    (Completed /\ IsSet(prev0)) =>
        \A c \in prev0.set \ DOMAIN flight_metadata :
            /\ EventsFor(c) = 1
            /\ \E i \in DOMAIN bus :
                   /\ bus[i].callsign = c
                   /\ bus[i].event = EXIT
                   /\ bus[i].altitude = Num(0)
                   /\ bus[i].latitude = None
                   /\ bus[i].longitude = None
                   /\ bus[i].icao24 = None

\* A tracked aircraft vanishes from the feed while another one is still reported
C7_Witness ==
    /\ Completed /\ IsSet(prev0)
    /\ prev0.set = {A, B}
    /\ DOMAIN flight_metadata = {B}
    /\ Fired(EXIT) = {A}

(* C8: at the end of every update the tracked set is exactly the set of    *)
(* callsigns whose record in the metadata of that update passes the        *)
(* filters, also when a callsign repeats and the metadata keeps the last   *)
(* record.                                                                 *)
C8_TrackedMatchesMetadata ==
    Completed =>
        _previously_tracked.set =
            {c \in DOMAIN flight_metadata :
                PassesFilters(flight_metadata[c], _altitude, _radius)}

(* C9: a record whose callsign is blank after trimming is in neither the   *)
(* metadata nor the tracked set, whatever its other fields, fires no ENTRY *)
(* and does not change the count.                                          *)
IsBlankRecord(state) == IsStr(field(state, 2)) /\ strip(field(state, 2).str) = <<>>

C9_BlankDiscarded ==
    Ran =>
        /\ <<>> \notin DOMAIN flight_metadata
        /\ IsSet(_previously_tracked) => <<>> \notin _previously_tracked.set
        /\ \A i \in DOMAIN bus : bus[i].callsign # <<>>
        /\ \A c \in DOMAIN flight_metadata :
               strip(flight_metadata[c][ATTR_CALLSIGN].str) = c
        /\ (Records # <<>> /\ \A i \in DOMAIN Records : IsBlankRecord(Records[i])) =>
               /\ Completed
               /\ flight_metadata = EmptyDict
               /\ _previously_tracked = Tracked({})
               /\ _state = 0
               /\ Fired(ENTRY) = {}

\* After a baseline, a blank callsign on a record that passes every filter
C9_Witness ==
    /\ Completed /\ IsSet(prev0)
    /\ Len(Records) = 1
    /\ IsBlankRecord(Records[1])
    /\ Qualifies(Records[1], _altitude, _radius)
    /\ _state = 0

(* C10: a record with a non-blank callsign is tracked if and only if its   *)
(* longitude and latitude are present, it is not on the ground, its        *)
(* distance from the centre is at most the radius, its altitude is present *)
(* and the ceiling is 0 or the altitude is at most the ceiling; a record   *)
(* on the ground is never tracked.                                         *)
C10_InclusionRule ==
    (Completed /\ response.kind = "states") =>
        /\ \A i \in DOMAIN Records :
               HasCallsign(Records[i]) =>
                   ( CallsignOf(Records[i]) \in _previously_tracked.set
                     <=> \E j \in DOMAIN Records :
                            /\ HasCallsign(Records[j])
                            /\ CallsignOf(Records[j]) = CallsignOf(Records[i])
                            /\ Qualifies(Records[j], _altitude, _radius) )
        /\ \A c \in _previously_tracked.set :
               \E i \in DOMAIN Records : HasCallsign(Records[i]) /\ CallsignOf(Records[i]) = c
        /\ (Len(Records) = 1 /\ Truthy(field(Records[1], 9))) =>
               _previously_tracked.set = {}

\* A record on the ground, inside the radius and below the ceiling
C10_Witness ==
    /\ Completed
    /\ Len(Records) = 1
    /\ HasCallsign(Records[1])
    /\ Truthy(field(Records[1], 9))
    /\ Qualifies([Records[1] EXCEPT ![9] = Bool(FALSE)], _altitude, _radius)
    /\ _previously_tracked.set = {}

(* C11: with ceiling 0 a record that qualifies otherwise is tracked at any  *)
(* altitude; with a ceiling c other than 0 it is tracked at altitude c and  *)
(* not tracked above c (ceiling 1000: 1000 is in, 1500 is out).            *)
C11_CeilingSemantics ==
    ( /\ Completed
      /\ Len(Records) = 1
      /\ HasCallsign(Records[1])
      /\ IsNum(field(Records[1], 8))
      /\ Qualifies(Records[1], 0, _radius) ) =>
        LET altitude == field(Records[1], 8).num
            tracked == CallsignOf(Records[1]) \in _previously_tracked.set
        IN /\ _altitude = 0 => tracked
           /\ (_altitude # 0 /\ altitude = _altitude) => tracked
           /\ (_altitude # 0 /\ altitude > _altitude) => ~tracked
           /\ (_altitude = 1000 /\ altitude = 1000) => tracked
           /\ (_altitude = 1000 /\ altitude = 1500) => ~tracked

\* A record exactly at a ceiling that is not 0
C11_Witness ==
    /\ Completed
    /\ Len(Records) = 1
    /\ HasCallsign(Records[1])
    /\ _altitude # 0
    /\ field(Records[1], 8) = Num(_altitude)
    /\ _previously_tracked.set = {CallsignOf(Records[1])}

(* C12: an unset previous tracked set is not an empty one: a first update   *)
(* without qualifying records fires nothing and stores the empty set, and   *)
(* the update after an empty baseline fires an ENTRY for every callsign     *)
(* that qualifies in it.                                                    *)
C12_UnsetIsNotEmpty ==
    /\ ( /\ Completed /\ IsNone(prev0)
         /\ \A i \in DOMAIN Records :
                ~(HasCallsign(Records[i]) /\ Qualifies(Records[i], _altitude, _radius)) )
       => (bus = <<>> /\ _previously_tracked = Tracked({}) /\ _state = 0)
    /\ (Completed /\ prev0 = Tracked({})) =>
           /\ Fired(ENTRY) = _previously_tracked.set
           /\ Fired(EXIT) = {}
           /\ Len(bus) = _state

\* Two aircraft arrive after an empty baseline
C12_Witness ==
    /\ Completed
    /\ prev0 = Tracked({})
    /\ state0 = 0
    /\ Fired(ENTRY) = {A, B}
    /\ Len(bus) = 2

\* The last record of the response filed under callsign c
LastRecordOf(c) ==
    LET filed == {i \in DOMAIN Records : HasCallsign(Records[i]) /\ CallsignOf(Records[i]) = c}
    IN Records[CHOOSE i \in filed : \A j \in filed : j <= i]

(* C17: a record with a non-blank callsign that fails the filters is still  *)
(* in the metadata of the update, so the EXIT of a callsign that is still   *)
(* reported but no longer qualifies carries the altitude, longitude,        *)
(* latitude and icao24 of its current record, not altitude 0 and nulls.     *)
C17_ExitCarriesCurrentRecord ==
    (Completed /\ response.kind = "states") =>
        /\ DOMAIN flight_metadata =
               {CallsignOf(Records[i]) : i \in {j \in DOMAIN Records : HasCallsign(Records[j])}}
        /\ IsSet(prev0) =>
               \A c \in (prev0.set \ _previously_tracked.set) \cap DOMAIN flight_metadata :
                   \E i \in DOMAIN bus :
                       /\ bus[i].event = EXIT
                       /\ bus[i].callsign = c
                       /\ bus[i].altitude = field(LastRecordOf(c), 8)
                       /\ bus[i].longitude = field(LastRecordOf(c), 6)
                       /\ bus[i].latitude = field(LastRecordOf(c), 7)
                       /\ bus[i].icao24 = field(LastRecordOf(c), 1)

\* A tracked aircraft is reported above the ceiling
C17_Witness ==
    /\ Completed
    /\ IsSet(prev0) /\ prev0.set = {A}
    /\ Len(Records) = 1
    /\ HasCallsign(Records[1]) /\ CallsignOf(Records[1]) = A
    /\ _altitude # 0
    /\ IsNum(field(Records[1], 8)) /\ field(Records[1], 8).num > _altitude
    /\ Len(bus) = 1
    /\ bus[1].event = EXIT
    /\ bus[1].altitude = field(Records[1], 8)
    /\ bus[1].icao24 = icao(A)

----------------------------------------------------------------------------
(* The bounding box *)

\* The centre of the configuration in thousandths of a degree, as the box is
CentreLat == config.latitude * 1000
CentreLon == config.longitude * 1000

\* x lies in the longitude interval of the box, which runs eastwards from
\* lon_min to lon_max and crosses the antimeridian when lon_min > lon_max
InLongitudes(box, x) ==
    IF box.lon_min <= box.lon_max
    THEN box.lon_min <= x /\ x <= box.lon_max
    ELSE box.lon_min <= x \/ x <= box.lon_max

\* The width of the longitude interval of the box, eastwards
Width(box) == (box.lon_max - box.lon_min) % 360000

(* C13: for a valid centre and a positive radius the box contains the       *)
(* centre: lat_min <= latitude <= lat_max, and the longitude lies between   *)
(* lon_min and lon_max, read around the antimeridian when the box crosses   *)
(* it.                                                                      *)
C13_BoxContainsCentre ==
    setup = "ready" =>
        /\ _bbox.lat_min <= CentreLat
        /\ CentreLat <= _bbox.lat_max
        /\ InLongitudes(_bbox, CentreLon)

(* C14: for a valid centre and a positive radius, lat_min <= lat_max, both  *)
(* latitudes are within [-90, 90] and both longitudes within [-180, 180].   *)
C14_BoxInRange ==
    setup = "ready" =>
        /\ _bbox.lat_min <= _bbox.lat_max
        /\ -90000 <= _bbox.lat_min /\ _bbox.lat_max <= 90000
        /\ -180000 <= _bbox.lon_min /\ _bbox.lon_min <= 180000
        /\ -180000 <= _bbox.lon_max /\ _bbox.lon_max <= 180000

\* A box cut at the north pole whose eastern edge went over the antimeridian
C14_Witness ==
    /\ setup = "ready"
    /\ config.latitude = 89 /\ config.longitude = 179
    /\ _bbox.lat_max = 90000
    /\ _bbox.lat_min < 89000
    /\ _bbox.lon_max < 180000

(* C15: for a fixed centre, the box of twice the radius contains the box of *)
(* the radius: lat_min is not greater, lat_max is not smaller, and the      *)
(* longitude interval, read around the antimeridian, contains the smaller.  *)
C15_DoublingContains ==
    setup = "ready" =>
        LET doubled == _get_bbox(config.latitude, config.longitude, 2 * _radius)
        IN /\ doubled.lat_min <= _bbox.lat_min
           /\ doubled.lat_max >= _bbox.lat_max
           /\ InLongitudes(doubled, _bbox.lon_min)
           /\ InLongitudes(doubled, _bbox.lon_max)
           /\ Width(doubled) >= Width(_bbox)

(* C16: constructing the sensor with a radius of zero or less fails at      *)
(* setup, and no sensor that can run update is produced.                    *)
C16_BadRadiusFailsSetup ==
    (setup # "none" /\ config.radius <= 0) =>
        /\ setup = "failed"
        /\ _bbox = None
        /\ called = "never"
        /\ _state = 0 /\ _previously_tracked = None
        /\ ~ENABLED UpdateSetup

C16_Witness ==
    /\ setup = "failed"
    /\ config.radius = 0
    /\ called = "never"

----------------------------------------------------------------------------
(* The events of a callsign over the polls *)

\* The kind of the last event of callsign c in the log, "none" without one
LastOf(log, c) == IF c \in DOMAIN log THEN log[c] ELSE "none"

(* C18: over any sequence of updates the events of a callsign alternate:    *)
(* an ENTRY is never followed by an ENTRY nor an EXIT by an EXIT, and the   *)
(* first event of a callsign is an EXIT exactly when the callsign was       *)
(* tracked by the baseline update, an ENTRY otherwise.                      *)
C18_EventsAlternate ==
    [][ \A i \in DOMAIN bus' :
            LET c == bus'[i].callsign
                prior == LastOf(record_events(last_event, SubSeq(bus', 1, i - 1)), c)
            IN /\ bus'[i].event \in {ENTRY, EXIT}
               /\ bus'[i].event # prior
               /\ prior = "none" =>
                      /\ IsSet(baseline)
                      /\ bus'[i].event = EXIT <=> c \in baseline.set ]_vars

\* A callsign that was not in the baseline has entered and has now left
C18_Witness ==
    /\ Completed
    /\ IsSet(baseline) /\ A \notin baseline.set
    /\ A \in Fired(EXIT)
    /\ LastOf(last_event, A) = EXIT
    /\ LastOf(last_event, B) = ENTRY

----------------------------------------------------------------------------
(* C19: the count and the stored tracked set are written only by the last   *)
(* two statements of update, after every event was fired; an update that    *)
(* raises before them (the HTTP call, a record of the loop, the event bus)  *)
(* leaves both as they were.                                                *)
C19_AbortLeavesState ==
    /\ called = "raised" => (_state = state0 /\ _previously_tracked = prev0)
    /\ (Ran /\ (_state # state0 \/ _previously_tracked # prev0)) =>
           /\ Completed
           /\ IsSet(prev0) =>
                  /\ Fired(ENTRY) = _previously_tracked.set \ prev0.set
                  /\ Fired(EXIT) = prev0.set \ _previously_tracked.set

\* The bus takes the ENTRY of B and refuses the EXIT of A
C19_Witness ==
    /\ called = "raised"
    /\ IsSet(prev0) /\ prev0.set = {A}
    /\ Len(bus) = 1
    /\ bus[1].event = ENTRY /\ bus[1].callsign = B
    /\ _previously_tracked = prev0
    /\ _state = 1

====
